---- MODULE Spec2Model ----
(***************************************************************************)
(* A model of train_stage3.py: the per-node loss aggregator               *)
(* (forward_one_node, forward_one_obj), the batch forward pass (forward)  *)
(* and the training orchestrator (train).                                 *)
(*                                                                        *)
(* Two specifications share the module's variables:                       *)
(*   FwdSpec  applies the aggregator and the forward pass, which are pure *)
(*            functions of their arguments, to batches of bounded trees;  *)
(*   Spec     runs train() statement by statement for bounded numbers of  *)
(*            epochs and batches.                                         *)
(*                                                                        *)
(* Tensors hold floating point numbers.  The model keeps them exact: a    *)
(* sum is an integer and a quotient is the pair [num, den], compared by   *)
(* cross multiplication.  The quotient of 0 by 0 is torch's nan.          *)
(***************************************************************************)
EXTENDS Integers, Sequences, FiniteSets, TLC

VARIABLES
    \* ---- the aggregator and the forward pass applied to one batch
    batch,          \* the batch handed to forward: a sequence of objects
    fpc,            \* which applications have been made
    aggOut,         \* forward_one_obj on one object of the batch
    fwdOut,         \* forward on the batch
    fwdScaled,      \* forward on the batch, the decoder's losses scaled
    sepOut,         \* forward_one_obj on each object alone, then summed
    \* ---- train(conf)
    conf,           \* the run configuration
    pc,             \* the statement train() is at
    err,            \* the exception that ended the run, "" if none
    response,       \* the answer to input() of line 59, <<>> before it
    fs,             \* the file system: the two run directories, each
                    \* "absent", "old" (from an earlier run) or "fresh"
                    \* (created by this run), and whether conf.pth is saved
    flog,           \* the log file: "unopened", "open" or "closed"
    flog_lines,     \* number of writes to flog
    models,         \* the list named models (line 54, then line 100)
    training,       \* component -> its module is in training mode
    requires_grad,  \* component -> its parameters require gradients
    param_ver,      \* component -> number of updates of its parameters
    has_grad,       \* component -> its parameters hold a gradient
    opt_params,     \* the components whose parameters point_opt optimises
    opt_steps,      \* number of point_opt.step() calls
    sched_steps,    \* number of point_scheduler.step() calls
    writers,        \* the bound names among train_writer, valdt_writer
    train_num_batch,
    valdt_num_batch,
    epoch,          \* the loop variable of line 162, <<>> while unbound
    train_iter,     \* items train_batches has yielded this epoch
    valdt_iter,     \* items valdt_batches has yielded this epoch
    train_batch_ind,
    valdt_batch_ind,
    train_fraction_done,
    valdt_fraction_done,
    train_step,
    last_checkpoint_step,           \* <<>> is None
    last_train_console_log_step,    \* <<>> is None
    last_valdt_console_log_step,    \* <<>> is None
    log_console,
    total_loss,     \* the value forward last returned to train()
    checkpoints,    \* the save_checkpoint calls made, in order, each with
                    \* the number of training steps forwarded before it
    ops,            \* what the current training iteration has done, in order
    valdt_seen,     \* the validation batch indices processed this epoch
    tb_scalars,     \* scalars written to the tensorboard writers
    steps_forwarded,\* forward calls made by train(): [train, valdt]
    fwd_ctx         \* the last forward call of train(): whether gradients
                    \* were tracked and each component's mode, <<>> before it

fvars == <<batch, fpc, aggOut, fwdOut, fwdScaled, sepOut>>

tvars == <<conf, pc, err, response, fs, flog, flog_lines, models, training,
           requires_grad, param_ver, has_grad, opt_params, opt_steps,
           sched_steps, writers, train_num_batch, valdt_num_batch, epoch,
           train_iter, valdt_iter, train_batch_ind, valdt_batch_ind,
           train_fraction_done, valdt_fraction_done, train_step,
           last_checkpoint_step, last_train_console_log_step,
           last_valdt_console_log_step, log_console, total_loss,
           checkpoints, ops, valdt_seen, tb_scalars, steps_forwarded,
           fwd_ctx>>

vars == <<fvars, tvars>>

\* groups of the variables of train()
envv  == <<conf, response, train_num_batch, valdt_num_batch>>
netv  == <<models, training, requires_grad, param_ver, has_grad, opt_params,
           opt_steps, sched_steps>>
iov   == <<fs, flog, flog_lines, writers, checkpoints, tb_scalars>>
loopv == <<epoch, train_iter, valdt_iter, train_batch_ind, valdt_batch_ind,
           train_fraction_done, valdt_fraction_done, train_step>>
logv  == <<last_checkpoint_step, last_train_console_log_step,
           last_valdt_console_log_step, log_console>>
histv == <<ops, valdt_seen, steps_forwarded, fwd_ctx>>

(***************************************************************************)
(* Bounds of the model.                                                    *)
(***************************************************************************)
\* the largest number of tree nodes in a batch given to forward
MaxNodes == 4
\* the largest visit count forward_one_obj is started from
MaxStartCnt == 2
\* the largest factor the decoder's losses are scaled by
MaxScale == 3
\* the largest conf.epochs
MaxEpochs == 2
\* the largest len(train_dataloader)
MaxTrainBatches == 3
\* the largest len(valdt_dataloader)
MaxValdtBatches == 3
\* the largest conf.checkpoint_interval
MaxInterval == 3

\* Python's None and a bound value
None == <<>>
Some(x) == <<x>>

(***************************************************************************)
(* Exact quotients.                                                        *)
(***************************************************************************)
\* tensor / cnt (line 279): torch divides by zero without raising; 0/0 is nan
Div(x, cnt) == [num |-> x, den |-> cnt]

\* q1 = q2 as numbers; nan equals nothing
RatEq(q1, q2) ==
    /\ q1.den # 0
    /\ q2.den # 0
    /\ q1.num * q2.den = q2.num * q1.den

\* q1 <= q2 for quotients with positive denominators
RatLe(q1, q2) == q1.num * q2.den <= q2.num * q1.den

(***************************************************************************)
(* The tree model (data.Tree, consumed interface): a node has the geometry *)
(* norm_geo and the ordered children; an object has a root.                *)
(***************************************************************************)
\* the geometries a node can carry
Geos == {0, 1}

RECURSIVE TreesOfSize(_), ForestsOfSize(_)
\* all trees with exactly n nodes
TreesOfSize(n) ==
    {[norm_geo |-> g, children |-> cs] : g \in Geos, cs \in ForestsOfSize(n - 1)}

\* all sequences of trees with exactly m nodes in total
ForestsOfSize(m) ==
    IF m = 0 THEN {<<>>}
    ELSE UNION {{<<t>> \o f : t \in TreesOfSize(j), f \in ForestsOfSize(m - j)}
                : j \in 1..m}

\* the batches forward is applied to: objects with at most MaxNodes nodes
Batches ==
    UNION {{[i \in 1..Len(f) |-> [root |-> f[i]]] : f \in ForestsOfSize(m)}
           : m \in 0..MaxNodes}

(***************************************************************************)
(* The collaborators of the aggregator.                                    *)
(***************************************************************************)
LossNames == {"latent", "geo", "center", "scale", "leaf", "exists",
              "semantic", "edge_exists", "sym", "adj"}

\* PointNetEncoder: geometry -> code
PointNetEncoder == [g \in Geos |-> g + 1]

\* what the decoder's node_recon_loss returns for a code, before scaling:
\* a mapping of some of the ten names to losses
BaseLoss(root_code) ==
    CASE root_code = 1 -> [n \in {"geo"} |-> 1]
      [] OTHER -> [n \in LossNames |->
                     CASE n = "latent" -> 1 [] n = "geo" -> 2
                       [] n = "center" -> 3 [] n = "scale" -> 5
                       [] n = "leaf" -> 0 [] n = "exists" -> 4
                       [] n = "semantic" -> 7 [] n = "edge_exists" -> 1
                       [] n = "sym" -> 6 [] OTHER -> 9]

\* decoder.node_recon_loss(root_code, obj_node): the decoder is the factor k
\* its losses are scaled by
node_recon_loss(decoder, root_code, obj_node) ==
    LET base == BaseLoss(root_code)
    IN  [n \in DOMAIN base |-> decoder * base[n]]

(***************************************************************************)
(* forward_one_node and forward_one_obj                                    *)
(***************************************************************************)
forward_one_node_overwrite(obj_node, pointencoder, decoder, losses) ==
    LET root_code == pointencoder[obj_node.norm_geo]
        obj_losses == node_recon_loss(decoder, root_code, obj_node)
    IN  [n \in DOMAIN losses |->
            IF n \in DOMAIN obj_losses THEN obj_losses[n] ELSE losses[n]]

forward_one_node(obj_node, pointencoder, decoder, losses) ==
    LET root_code == pointencoder[obj_node.norm_geo]
        obj_losses == node_recon_loss(decoder, root_code, obj_node)
    IN  [n \in DOMAIN losses |->
            IF n \in DOMAIN obj_losses
            THEN losses[n] + obj_losses[n]
            ELSE losses[n]]

RECURSIVE forward_one_obj(_, _, _, _, _), for_children(_, _, _, _, _, _)

\* a forward_one_obj that drops the count its children return
forward_one_obj_unthreaded(obj_node, pointnet, decoder, losses, cnt) ==
    LET l1 == forward_one_node(obj_node, pointnet, decoder, losses)
        c1 == cnt + 1
    IN  IF obj_node.children # <<>>
        THEN [losses |-> for_children(obj_node.children, 1, pointnet, decoder,
                                      l1, c1).losses,
              cnt |-> c1]
        ELSE [losses |-> l1, cnt |-> c1]

forward_one_obj(obj_node, pointnet, decoder, losses, cnt) ==
    LET l1 == forward_one_node(obj_node, pointnet, decoder, losses)
        c1 == cnt + 1
    IN  IF obj_node.children # <<>>
        THEN for_children(obj_node.children, 1, pointnet, decoder, l1, c1)
        ELSE [losses |-> l1, cnt |-> c1]

\* the loop of lines 45-46 from its i-th iteration on
for_children(children, i, pointnet, decoder, losses, cnt) ==
    IF i > Len(children) THEN [losses |-> losses, cnt |-> cnt]
    ELSE LET r == forward_one_obj(children[i], pointnet, decoder, losses, cnt)
         IN  for_children(children, i + 1, pointnet, decoder, r.losses, r.cnt)

(***************************************************************************)
(* forward: the batch forward pass                                         *)
(***************************************************************************)
OneLosses == [n \in LossNames |-> 1]

\* the accumulator of lines 258-268
ZeroLosses == [n \in LossNames |-> 0]

RECURSIVE for_objects(_, _, _, _, _, _), for_objects_reset(_, _, _, _, _, _)

\* a loop that starts every object from a count of zero
for_objects_reset(objects, i, point, decoder, losses, cnt) ==
    IF i > Len(objects) THEN [losses |-> losses, cnt |-> cnt]
    ELSE LET r == forward_one_obj(objects[i].root, point, decoder, losses, 0)
         IN  for_objects_reset(objects, i + 1, point, decoder, r.losses, r.cnt)

\* the loop of lines 272-276 from its i-th iteration on
for_objects(objects, i, point, decoder, losses, cnt) ==
    IF i > Len(objects) THEN [losses |-> losses, cnt |-> cnt]
    ELSE LET r == forward_one_obj(objects[i].root, point, decoder, losses, cnt)
         IN  for_objects(objects, i + 1, point, decoder, r.losses, r.cnt)

\* lines 292-294: the sum of the ten terms, which share the denominator cnt
SumLosses(losses, cnt) ==
    [num |-> losses["latent"].num + losses["geo"].num + losses["center"].num
             + losses["scale"].num + losses["leaf"].num + losses["exists"].num
             + losses["semantic"].num + losses["edge_exists"].num
             + losses["sym"].num + losses["adj"].num,
     den |-> cnt]

\* forward(...): what it returns and what it logs.  acc and normalized are
\* the values losses holds after line 276 and after line 279.
forward(objects, point, decoder, cf, is_valdt, log_cons, log_tb, tb_writer) ==
    LET r == for_objects(objects, 1, point, decoder, ZeroLosses, 0)
        normalized == [n \in LossNames |-> Div(r.losses[n], r.cnt)]
        losses == [n \in LossNames |->
                     [num |-> normalized[n].num * cf.loss_weight[n],
                      den |-> normalized[n].den]]
    IN  [status |-> "returned",
         acc |-> r.losses,
         cnt |-> r.cnt,
         normalized |-> normalized,
         losses |-> losses,
         total_loss |-> SumLosses(losses, r.cnt),
         is_valdt |-> is_valdt,
         console_lines |-> IF log_cons THEN 1 ELSE 0,
         tb_scalars |-> IF log_tb /\ tb_writer # "None" THEN 12 ELSE 0]

(***************************************************************************)
(* train(conf): the configuration and the state train() starts from        *)
(***************************************************************************)
Components == {"encoder", "decoder", "pointencoder"}

\* the components the loss of a batch is computed from: the point extractor
\* (line 30) and the decoder (line 32); the encoder's code is unused
LossDeps == {"pointencoder", "decoder"}

\* conf.loss_weight_latent ... conf.loss_weight_adj
WeightProfiles ==
    {[n \in LossNames |-> 1],
     [n \in LossNames |->
        CASE n = "latent" -> 2 [] n = "geo" -> 3 [] n = "center" -> 1
          [] n = "scale" -> 4 [] n = "leaf" -> 0 [] n = "exists" -> 5
          [] n = "semantic" -> 1 [] n = "edge_exists" -> 2
          [] n = "sym" -> 7 [] OTHER -> 6]}

Confs ==
    [epochs : 0..MaxEpochs,
     checkpoint_interval : 0..MaxInterval,
     console_log_interval : {2},
     no_console_log : BOOLEAN,
     no_tb_log : BOOLEAN,
     loss_weight : {[n \in LossNames |-> 1]}]

\* the batches the data loaders yield: never an empty one
LoaderBatches ==
    {<<[root |-> [norm_geo |-> 0, children |-> <<>>]]>>,
     <<[root |-> [norm_geo |-> 1,
                  children |-> <<[norm_geo |-> 0, children |-> <<>>]>>]]>>}

\* the state at the call train(conf)
TrainStart(cf, resp, files, tnb, vnb) ==
    /\ conf = cf
    /\ response = resp
    /\ fs = files
    /\ train_num_batch = tnb
    /\ valdt_num_batch = vnb
    /\ pc = "start"
    /\ err = ""
    /\ flog = "unopened"
    /\ flog_lines = 0
    /\ models = <<>>
    /\ training = [c \in Components |-> TRUE]
    /\ requires_grad = [c \in Components |-> TRUE]
    /\ param_ver = [c \in Components |-> 0]
    /\ has_grad = [c \in Components |-> FALSE]
    /\ opt_params = {}
    /\ opt_steps = 0
    /\ sched_steps = 0
    /\ writers = {}
    /\ epoch = None
    /\ train_iter = 0
    /\ valdt_iter = 0
    /\ train_batch_ind = None
    /\ valdt_batch_ind = -1
    /\ train_fraction_done = Div(0, 1)
    /\ valdt_fraction_done = Div(0, 1)
    /\ train_step = None
    /\ last_checkpoint_step = None
    /\ last_train_console_log_step = None
    /\ last_valdt_console_log_step = None
    /\ log_console = FALSE
    /\ total_loss = None
    /\ checkpoints = <<>>
    /\ ops = <<>>
    /\ valdt_seen = <<>>
    /\ tb_scalars = 0
    /\ steps_forwarded = [train |-> 0, valdt |-> 0]
    /\ fwd_ctx = None

\* log_path/exp_name and model_path/exp_name before the run, and conf.pth
FileSystems ==
    [log_dir : {"absent", "old"}, model_dir : {"absent", "old"},
     conf_pth : {FALSE}]

\* what the user may answer at line 59
Responses == {"y", "n", ""}

Init ==
    /\ batch = <<>>
    /\ fpc = "idle"
    /\ aggOut = None
    /\ fwdOut = None
    /\ fwdScaled = None
    /\ sepOut = None
    /\ \E cf \in Confs, files \in FileSystems,
          tnb \in 0..MaxTrainBatches, vnb \in 0..MaxValdtBatches :
            TrainStart(cf, None, files, tnb, vnb)

\* the run ends with an exception
Raise(e) ==
    /\ pc' = "crashed"
    /\ err' = e

(***************************************************************************)
(* INIT                                                                    *)
(***************************************************************************)
RunExistsLogOnly(files) == files.log_dir # "absent"

\* lines 57-58: a run of this name exists
RunExists(files) == files.log_dir # "absent" \/ files.model_dir # "absent"

\* lines 57-61: the overwrite prompt; sys.exit() unless the answer is 'y'
CheckExisting ==
    /\ pc = "start"
    /\ IF RunExists(fs)
       THEN \E r \in Responses :
              /\ response' = Some(r)
              /\ pc' = IF r # "y" THEN "exited" ELSE "prepare"
       ELSE /\ pc' = "prepare"
            /\ UNCHANGED response
    /\ UNCHANGED <<fvars, conf, train_num_batch, valdt_num_batch, netv, iov,
                   loopv, logv, histv, err, total_loss>>

\* lines 62-93: remove the directories that exist, create both, open the
\* log, save conf
PrepareDirs ==
    /\ pc = "prepare"
    /\ fs' = [log_dir |-> "fresh", model_dir |-> "fresh", conf_pth |-> TRUE]
    /\ flog' = "open"
    /\ flog_lines' = flog_lines + 3
    /\ pc' = "create"
    /\ UNCHANGED <<fvars, envv, netv, writers, checkpoints, tb_scalars, loopv,
                   logv, histv, err, total_loss>>

\* line 120: the components whose parameters the optimizer is built over
OptimizedComponents == {"encoder"}

FrozenDecoderOnly == {"decoder"}

\* lines 110-117: the components put in evaluation mode with requires_grad
\* set to False
Frozen == {"encoder", "decoder"}

\* lines 95-124: create the models, load stage 2, freeze, build the optimizer
CreateModels ==
    /\ pc = "create"
    /\ models' = <<"encoder", "decoder">>
    /\ training' = [c \in Components |->
                      IF c \in Frozen THEN FALSE ELSE training[c]]
    /\ requires_grad' = [c \in Components |->
                      IF c \in Frozen THEN FALSE ELSE requires_grad[c]]
    /\ opt_params' = OptimizedComponents
    /\ pc' = "logs"
    /\ UNCHANGED <<fvars, envv, param_ver, has_grad, opt_steps, sched_steps,
                   iov, loopv, logv, histv, err, total_loss>>

\* lines 137-159: the tensorboard writers exist only when tb logging is on
CreateLogs ==
    /\ pc = "logs"
    /\ writers' = IF ~conf.no_tb_log THEN {"train_writer", "valdt_writer"}
                  ELSE {}
    /\ flog_lines' = flog_lines + 1
    /\ pc' = "epoch_head"
    /\ UNCHANGED <<fvars, envv, netv, fs, flog, checkpoints, tb_scalars, loopv,
                   logv, histv, err, total_loss>>

(***************************************************************************)
(* The epoch and batch loops                                               *)
(***************************************************************************)
\* lines 162-173: the next epoch, or the end of the loop
EpochHead ==
    /\ pc = "epoch_head"
    /\ LET next == IF epoch = None THEN 0 ELSE epoch[1] + 1
       IN  IF next < conf.epochs
           THEN /\ epoch' = Some(next)
                /\ flog_lines' = flog_lines + (IF ~conf.no_console_log THEN 2 ELSE 0)
                /\ train_iter' = 0
                /\ valdt_iter' = 0
                /\ train_fraction_done' = Div(0, 1)
                /\ valdt_fraction_done' = Div(0, 1)
                /\ valdt_batch_ind' = -1
                /\ valdt_seen' = <<>>
                /\ pc' = "batch_head"
           ELSE /\ pc' = "final"
                /\ UNCHANGED <<epoch, flog_lines, train_iter, valdt_iter,
                               train_fraction_done, valdt_fraction_done,
                               valdt_batch_ind, valdt_seen>>
    /\ UNCHANGED <<fvars, envv, netv, fs, flog, writers, checkpoints,
                   tb_scalars, train_batch_ind, train_step, logv, ops,
                   steps_forwarded, fwd_ctx, err, total_loss>>

train_step_within_epoch(ep, ind, tnb) == ind

\* line 178
train_step_of(ep, ind, tnb) == ep * tnb + ind

\* lines 180-181 and 224-225, steps as quotients: last is None or
\* step - last >= interval
LogDue(no_console_log, last, step, interval) ==
    /\ ~no_console_log
    /\ \/ last = None
       \/ step.num * last[1].den - last[1].num * step.den
            >= interval * step.den * last[1].den

conventional_order ==
    <<"forward", "zero_grad", "backward", "opt_step", "sched_step">>

\* lines 190-201: the statements of a training step, in order
train_step_order ==
    <<"forward", "opt_step", "sched_step", "zero_grad", "backward">>

validation_first == <<"validate", "checkpoint">>

\* lines 204-240: what follows the training step in an iteration, in order
post_step_order == <<"checkpoint", "validate">>

\* the phase after p in an iteration; line 176 follows the last
AfterPhase(p) ==
    LET i == CHOOSE j \in 1..Len(post_step_order) : post_step_order[j] = p
    IN  IF i < Len(post_step_order) THEN post_step_order[i + 1]
        ELSE "batch_head"

\* the statement after op in a training step; line 204 follows the last
After(op) ==
    LET i == CHOOSE j \in 1..Len(train_step_order) : train_step_order[j] = op
    IN  IF i < Len(train_step_order) THEN train_step_order[i + 1]
        ELSE post_step_order[1]

\* lines 176-183: the next training batch, or the end of the epoch
BatchHead ==
    /\ pc = "batch_head"
    /\ IF train_iter < train_num_batch
       THEN LET ind == train_iter
                step == train_step_of(epoch[1], ind, train_num_batch)
                due == LogDue(conf.no_console_log, last_train_console_log_step,
                              Div(step, 1), conf.console_log_interval)
            IN  /\ train_iter' = train_iter + 1
                /\ train_batch_ind' = Some(ind)
                /\ train_fraction_done' = Div(ind + 1, train_num_batch)
                /\ train_step' = Some(step)
                /\ log_console' = due
                /\ last_train_console_log_step' =
                       IF due THEN Some(Div(step, 1))
                       ELSE last_train_console_log_step
                /\ ops' = <<>>
                /\ pc' = train_step_order[1]
       ELSE /\ pc' = "epoch_head"
            /\ UNCHANGED <<train_iter, train_batch_ind, train_fraction_done,
                           train_step, log_console,
                           last_train_console_log_step, ops>>
    /\ UNCHANGED <<fvars, envv, netv, iov, epoch, valdt_iter, valdt_batch_ind,
                   valdt_fraction_done, last_checkpoint_step,
                   last_valdt_console_log_step, valdt_seen, steps_forwarded,
                   fwd_ctx, err, total_loss>>

(***************************************************************************)
(* TRAIN_STEP                                                              *)
(***************************************************************************)
\* lines 191-195: the forward pass of the training batch.  Reading
\* train_writer raises when line 143 never bound it.
TrainForward ==
    /\ pc = "forward"
    /\ IF "train_writer" \notin writers
       THEN /\ Raise("UnboundLocalError")
            /\ UNCHANGED <<total_loss, flog_lines, tb_scalars, ops,
                           steps_forwarded, fwd_ctx>>
       ELSE \E b \in LoaderBatches :
              LET out == forward(b, PointNetEncoder, 1, conf, FALSE,
                                 log_console, ~conf.no_tb_log, "train_writer")
              IN  /\ total_loss' = Some([step |-> train_step[1],
                                         value |-> out.total_loss,
                                         has_graph |-> \E c \in LossDeps :
                                                          requires_grad[c]])
                  /\ flog_lines' = flog_lines + out.console_lines
                  /\ tb_scalars' = tb_scalars + out.tb_scalars
                  /\ ops' = Append(ops, <<"forward", train_step[1]>>)
                  /\ steps_forwarded' =
                       [steps_forwarded EXCEPT !.train = @ + 1]
                  /\ fwd_ctx' = Some([is_valdt |-> FALSE,
                                      grad_enabled |-> TRUE,
                                      training |-> training])
                  /\ pc' = After("forward")
                  /\ err' = err
    /\ UNCHANGED <<fvars, envv, netv, fs, flog, writers, checkpoints, loopv,
                   logv, valdt_seen>>

\* line 198: Adam updates the parameters it holds that have a gradient
OptStep ==
    /\ pc = "opt_step"
    /\ param_ver' = [c \in Components |->
                       IF c \in opt_params /\ has_grad[c]
                       THEN param_ver[c] + 1 ELSE param_ver[c]]
    /\ opt_steps' = opt_steps + 1
    /\ ops' = Append(ops, <<"opt_step", train_step[1]>>)
    /\ pc' = After("opt_step")
    /\ UNCHANGED <<fvars, envv, models, training, requires_grad, has_grad,
                   opt_params, sched_steps, iov, loopv, logv, valdt_seen,
                   steps_forwarded, fwd_ctx, err, total_loss>>

\* line 199
SchedStep ==
    /\ pc = "sched_step"
    /\ sched_steps' = sched_steps + 1
    /\ ops' = Append(ops, <<"sched_step", train_step[1]>>)
    /\ pc' = After("sched_step")
    /\ UNCHANGED <<fvars, envv, models, training, requires_grad, param_ver,
                   has_grad, opt_params, opt_steps, iov, loopv, logv,
                   valdt_seen, steps_forwarded, fwd_ctx, err, total_loss>>

\* line 200: the gradients of the parameters the optimizer holds are cleared
ZeroGrad ==
    /\ pc = "zero_grad"
    /\ has_grad' = [c \in Components |->
                      IF c \in opt_params THEN FALSE ELSE has_grad[c]]
    /\ ops' = Append(ops, <<"zero_grad", train_step[1]>>)
    /\ pc' = After("zero_grad")
    /\ UNCHANGED <<fvars, envv, models, training, requires_grad, param_ver,
                   opt_params, opt_steps, sched_steps, iov, loopv, logv,
                   valdt_seen, steps_forwarded, fwd_ctx, err, total_loss>>

\* line 201: back-propagate total_loss; every parameter the loss is computed
\* from that requires a gradient receives one
Backward ==
    /\ pc = "backward"
    /\ IF ~total_loss[1].has_graph
       THEN /\ Raise("RuntimeError")
            /\ UNCHANGED <<has_grad, ops>>
       ELSE /\ has_grad' = [c \in Components |->
                              IF c \in LossDeps /\ requires_grad[c] THEN TRUE
                              ELSE has_grad[c]]
            /\ ops' = Append(ops, <<"backward", total_loss[1].step>>)
            /\ pc' = After("backward")
            /\ err' = err
    /\ UNCHANGED <<fvars, envv, models, training, requires_grad, param_ver,
                   opt_params, opt_steps, sched_steps, iov, loopv, logv,
                   valdt_seen, steps_forwarded, fwd_ctx, total_loss>>

(***************************************************************************)
(* CHECKPOINT, VALIDATE_STEP, FINAL_CHECKPOINT, DONE                       *)
(***************************************************************************)
\* utils.save_checkpoint: what a call writes, read off its arguments
save_checkpoint(ms, model_names, ep, prepend_epoch, optimizers, optimizer_names) ==
    [models |-> {ms[i] : i \in 1..Len(ms)},
     model_names |-> model_names,
     epoch |-> ep,
     prepend_epoch |-> prepend_epoch,
     optimizers |-> optimizers,
     optimizer_names |-> optimizer_names]

\* lines 206-207
CheckpointDue(last, step, interval) ==
    last = None \/ step - last[1] >= interval

\* lines 205-215: the periodic checkpoint
Checkpoint ==
    /\ pc = "checkpoint"
    /\ IF CheckpointDue(last_checkpoint_step, train_step[1],
                        conf.checkpoint_interval)
       THEN /\ checkpoints' = Append(checkpoints,
                  [saved |-> save_checkpoint(<<"pointencoder">>,
                                 <<"pointencoder">>, epoch[1], TRUE,
                                 <<"point_opt">>, <<"pointencoder">>),
                   step |-> steps_forwarded.train - 1])
            /\ flog_lines' = flog_lines + 2
            /\ last_checkpoint_step' = train_step
            /\ ops' = Append(ops, <<"checkpoint", train_step[1]>>)
       ELSE UNCHANGED <<checkpoints, flog_lines, last_checkpoint_step, ops>>
    /\ pc' = AfterPhase("checkpoint")
    /\ UNCHANGED <<fvars, envv, netv, fs, flog, writers, tb_scalars, loopv,
                   last_train_console_log_step, last_valdt_console_log_step,
                   log_console, valdt_seen, steps_forwarded, fwd_ctx, err,
                   total_loss>>

EvalSetModelsOnly(ms) == {ms[i] : i \in 1..Len(ms)}

\* lines 229-232: the components a validation step puts in evaluation mode
EvalSet(ms) == {ms[i] : i \in 1..Len(ms)} \cup {"pointencoder"}

\* q1 < q2 for quotients with positive denominators
RatLt(q1, q2) == q1.num * q2.den < q2.num * q1.den

ValdtLoopCondStrict(vf, tf, vind, vnb) ==
    /\ RatLt(vf, tf)
    /\ vind + 1 < vnb

ValdtLoopCondNoFraction(vf, tf, vind, vnb) == vind + 1 < vnb

ValdtLoopCondShort(vf, tf, vind, vnb) ==
    /\ RatLe(vf, tf)
    /\ vind + 2 < vnb

\* line 218: the condition of the interleave loop
ValdtLoopCond(vf, tf, vind, vnb) ==
    /\ RatLe(vf, tf)
    /\ vind + 1 < vnb

\* lines 219-240: one validation batch
ValidateStep ==
    /\ pc = "validate"
    /\ ValdtLoopCond(valdt_fraction_done, train_fraction_done,
                     valdt_batch_ind, valdt_num_batch)
    /\ IF valdt_iter >= valdt_num_batch
       THEN /\ Raise("StopIteration")
            /\ UNCHANGED <<valdt_iter, valdt_batch_ind, valdt_fraction_done,
                           log_console, last_valdt_console_log_step, training,
                           flog_lines, tb_scalars, ops, valdt_seen,
                           steps_forwarded, fwd_ctx>>
       ELSE LET ind == valdt_iter
                vf == Div(ind + 1, valdt_num_batch)
                valdt_step == Div((epoch[1] * valdt_num_batch + ind + 1)
                                     * train_num_batch - valdt_num_batch,
                                  valdt_num_batch)
                due == LogDue(conf.no_console_log, last_valdt_console_log_step,
                              valdt_step, conf.console_log_interval)
            IN  /\ valdt_iter' = valdt_iter + 1
                /\ valdt_batch_ind' = ind
                /\ valdt_fraction_done' = vf
                /\ log_console' = due
                /\ last_valdt_console_log_step' =
                       IF due THEN Some(valdt_step)
                       ELSE last_valdt_console_log_step
                /\ training' = [c \in Components |->
                       IF c \in EvalSet(models) THEN FALSE ELSE training[c]]
                /\ IF "valdt_writer" \notin writers
                   THEN /\ Raise("UnboundLocalError")
                        /\ UNCHANGED <<flog_lines, tb_scalars, ops, valdt_seen,
                                       steps_forwarded, fwd_ctx>>
                   ELSE \E b \in LoaderBatches :
                          LET out == forward(b, PointNetEncoder, 1, conf, TRUE,
                                             due, ~conf.no_tb_log, "valdt_writer")
                          IN  /\ flog_lines' = flog_lines + out.console_lines
                              /\ tb_scalars' = tb_scalars + out.tb_scalars
                              /\ ops' = Append(ops, <<"validate", ind>>)
                              /\ valdt_seen' = Append(valdt_seen, ind)
                              /\ steps_forwarded' =
                                   [steps_forwarded EXCEPT !.valdt = @ + 1]
                              /\ fwd_ctx' = Some([is_valdt |-> TRUE,
                                                  grad_enabled |-> FALSE,
                                                  training |-> training'])
                              /\ UNCHANGED <<pc, err>>
    /\ UNCHANGED <<fvars, envv, models, requires_grad, param_ver, has_grad,
                   opt_params, opt_steps, sched_steps, fs, flog, writers,
                   checkpoints, epoch, train_iter, train_batch_ind,
                   train_fraction_done, train_step, last_checkpoint_step,
                   last_train_console_log_step, total_loss>>

\* line 218 is false: on to the next training batch
ValidateExit ==
    /\ pc = "validate"
    /\ ~ValdtLoopCond(valdt_fraction_done, train_fraction_done,
                      valdt_batch_ind, valdt_num_batch)
    /\ pc' = AfterPhase("validate")
    /\ UNCHANGED <<fvars, envv, netv, iov, loopv, logv, histv, err, total_loss>>

\* lines 100-101 and 246: the models of the final checkpoint
FinalModels == models

\* lines 243-249: the final checkpoint; epoch is unbound when no epoch ran
FinalCheckpoint ==
    /\ pc = "final"
    /\ IF epoch = None
       THEN /\ Raise("UnboundLocalError")
            /\ flog_lines' = flog_lines + 1
            /\ UNCHANGED checkpoints
       ELSE /\ checkpoints' = Append(checkpoints,
                  [saved |-> save_checkpoint(FinalModels, FinalModels,
                                 epoch[1], FALSE, <<"point_opt">>,
                                 <<"pointencoder">>),
                   step |-> steps_forwarded.train - 1])
            /\ flog_lines' = flog_lines + 2
            /\ pc' = "close"
            /\ err' = err
    /\ UNCHANGED <<fvars, envv, netv, fs, flog, writers, tb_scalars, loopv,
                   logv, histv, total_loss>>

\* line 251
Close ==
    /\ pc = "close"
    /\ flog' = "closed"
    /\ pc' = "done"
    /\ UNCHANGED <<fvars, envv, netv, fs, flog_lines, writers, checkpoints,
                   tb_scalars, loopv, logv, histv, err, total_loss>>

Next ==
    \/ CheckExisting
    \/ PrepareDirs
    \/ CreateModels
    \/ CreateLogs
    \/ EpochHead
    \/ BatchHead
    \/ TrainForward
    \/ OptStep
    \/ SchedStep
    \/ ZeroGrad
    \/ Backward
    \/ Checkpoint
    \/ ValidateStep
    \/ ValidateExit
    \/ FinalCheckpoint
    \/ Close

Spec == Init /\ [][Next]_vars

(***************************************************************************)
(* The aggregator and the forward pass applied to bounded batches          *)
(***************************************************************************)
FwdConfs ==
    [epochs : {1},
     checkpoint_interval : {1},
     console_log_interval : {1},
     no_console_log : {FALSE},
     no_tb_log : {FALSE},
     loss_weight : WeightProfiles]

FwdInit ==
    /\ batch \in Batches
    /\ fpc = "start"
    /\ aggOut = None
    /\ fwdOut = None
    /\ fwdScaled = None
    /\ sepOut = None
    /\ \E cf \in FwdConfs :
          TrainStart(cf, None, [log_dir |-> "absent", model_dir |-> "absent",
                                conf_pth |-> FALSE], 1, 1)

\* forward_one_obj on the root of one object, from the visit count c
Aggregate ==
    /\ fpc = "start"
    /\ \E i \in 1..Len(batch), c \in 0..MaxStartCnt :
          aggOut' = Some([obj |-> i, cnt0 |-> c,
                          out |-> forward_one_obj(batch[i].root, PointNetEncoder,
                                                  1, ZeroLosses, c)])
    /\ fpc' = "aggregated"
    /\ UNCHANGED <<batch, fwdOut, fwdScaled, sepOut, tvars>>

\* forward on the batch, for every setting of the two log switches
Forward ==
    /\ fpc = "start"
    /\ \E lc \in BOOLEAN, ltb \in BOOLEAN, w \in {"None", "train_writer"} :
          fwdOut' = Some([out |-> forward(batch, PointNetEncoder, 1, conf,
                                          FALSE, lc, ltb, w)])
    /\ fpc' = "forwarded"
    /\ UNCHANGED <<batch, aggOut, fwdScaled, sepOut, tvars>>

\* forward again, every loss the decoder returns multiplied by k
ForwardScaled ==
    /\ fpc = "forwarded"
    /\ \E k \in 0..MaxScale :
          fwdScaled' = Some([k |-> k,
                             out |-> forward(batch, PointNetEncoder, k, conf,
                                             FALSE, FALSE, FALSE, "None")])
    /\ fpc' = "scaled"
    /\ UNCHANGED <<batch, aggOut, fwdOut, sepOut, tvars>>

RECURSIVE SumSeparately(_, _)
\* forward_one_obj on each of the first i objects alone, from a zero
\* accumulator and a zero count, the results added term by term
SumSeparately(objects, i) ==
    IF i = 0 THEN [losses |-> ZeroLosses, cnt |-> 0]
    ELSE LET rest == SumSeparately(objects, i - 1)
             one == forward_one_obj(objects[i].root, PointNetEncoder, 1,
                                    ZeroLosses, 0)
         IN  [losses |-> [n \in LossNames |-> rest.losses[n] + one.losses[n]],
              cnt |-> rest.cnt + one.cnt]

Separately ==
    /\ fpc = "forwarded"
    /\ sepOut' = Some(SumSeparately(batch, Len(batch)))
    /\ fpc' = "separated"
    /\ UNCHANGED <<batch, aggOut, fwdOut, fwdScaled, tvars>>

FwdNext ==
    \/ Aggregate
    \/ Forward
    \/ ForwardScaled
    \/ Separately

FwdSpec == FwdInit /\ [][FwdNext]_vars

(***************************************************************************)
(* Properties of the aggregator and the forward pass (under FwdSpec)       *)
(***************************************************************************)
RECURSIVE TreeSize(_), SizeOfAll(_, _)
\* the number of nodes of a tree, counted without the aggregator
TreeSize(node) == 1 + SizeOfAll(node.children, Len(node.children))

SizeOfAll(nodes, i) ==
    IF i = 0 THEN 0 ELSE SizeOfAll(nodes, i - 1) + TreeSize(nodes[i])

RECURSIVE NodesOf(_), NodesOfAll(_, _)
\* the nodes of a tree as a flat sequence
NodesOf(node) == <<node>> \o NodesOfAll(node.children, Len(node.children))

NodesOfAll(nodes, i) ==
    IF i = 0 THEN <<>> ELSE NodesOfAll(nodes, i - 1) \o NodesOf(nodes[i])

\* the nodes of every object of the batch
BatchNodes == NodesOfAll([i \in 1..Len(batch) |-> batch[i].root], Len(batch))

\* the loss named n that the decoder returns for a node, 0 when it names none
TermOf(node, n) ==
    LET l == node_recon_loss(1, PointNetEncoder[node.norm_geo], node)
    IN  IF n \in DOMAIN l THEN l[n] ELSE 0

RECURSIVE TermSum(_, _, _)
\* the sum of the loss named n over the first i nodes of a sequence
TermSum(nodes, i, n) ==
    IF i = 0 THEN 0 ELSE TermSum(nodes, i - 1, n) + TermOf(nodes[i], n)

\* C1: forward_one_obj started from the visit count c on the root of a tree
\* returns c + N, N the number of nodes of the tree; on a root without
\* children it returns c + 1 and the losses of that one node.
C1_NodeCount ==
    aggOut # None =>
        LET a == aggOut[1]
            root == batch[a.obj].root
        IN  /\ a.out.cnt = a.cnt0 + TreeSize(root)
            /\ root.children = <<>> =>
                  /\ a.out.cnt = a.cnt0 + 1
                  /\ a.out.losses = [n \in LossNames |-> TermOf(root, n)]

\* a tree of four nodes on three levels, aggregated from the count 2
C1_Witness ==
    /\ aggOut # None
    /\ aggOut[1].cnt0 = 2
    /\ LET root == batch[aggOut[1].obj].root
       IN  /\ Len(root.children) = 2
           /\ Len(root.children[1].children) = 1
           /\ TreeSize(root) = 4
    /\ aggOut[1].out.cnt = 6

\* C2: before weighting, every term forward computes for a batch with at
\* least one node is the sum of that term over all nodes of all objects
\* divided by the number of nodes of the whole batch.
C2_BatchMean ==
    (fwdOut # None /\ Len(BatchNodes) > 0) =>
        \A n \in LossNames :
            RatEq(fwdOut[1].out.normalized[n],
                  Div(TermSum(BatchNodes, Len(BatchNodes), n), Len(BatchNodes)))

\* tree A of three nodes with geo 1, tree B of one node with geo 2: geo is
\* 5/4, and not the mean 3/2 of the two per-object means
C2_Witness ==
    /\ fwdOut # None
    /\ Len(batch) = 2
    /\ batch[1].root = [norm_geo |-> 0,
                        children |-> <<[norm_geo |-> 0, children |-> <<>>],
                                       [norm_geo |-> 0, children |-> <<>>]>>]
    /\ batch[2].root = [norm_geo |-> 1, children |-> <<>>]
    /\ RatEq(fwdOut[1].out.normalized["geo"], Div(5, 4))
    /\ ~RatEq(fwdOut[1].out.normalized["geo"], Div(3, 2))

\* C3: the aggregator run on each object alone from a zero accumulator and a
\* zero count, the results added term by term, gives the accumulator and
\* the count forward reaches with one shared accumulator and count.
C3_Linearity ==
    sepOut # None =>
        /\ sepOut[1].losses = fwdOut[1].out.acc
        /\ sepOut[1].cnt = fwdOut[1].out.cnt

\* three objects, one of them with a child
C3_Witness ==
    /\ sepOut # None
    /\ Len(batch) = 3
    /\ \E i \in 1..Len(batch) : batch[i].root.children # <<>>
    /\ sepOut[1].cnt = 4
    /\ sepOut[1].losses["geo"] > 0

\* q multiplied by the integer k
Times(k, q) == [num |-> k * q.num, den |-> q.den]

\* C4: for a batch with at least one node, multiplying every loss the
\* decoder returns by k multiplies every normalized term, every weighted
\* term and the total loss by k.
C4_Scaling ==
    (fwdScaled # None /\ fwdOut[1].out.cnt > 0) =>
        LET k == fwdScaled[1].k
            one == fwdOut[1].out
            scaled == fwdScaled[1].out
        IN  /\ \A n \in LossNames :
                  /\ RatEq(scaled.normalized[n], Times(k, one.normalized[n]))
                  /\ RatEq(scaled.losses[n], Times(k, one.losses[n]))
            /\ RatEq(scaled.total_loss, Times(k, one.total_loss))

\* a batch of more than one node, unequal weights, the factor 3
C4_Witness ==
    /\ fwdScaled # None
    /\ fwdScaled[1].k = 3
    /\ fwdOut[1].out.cnt > 1
    /\ conf.loss_weight["sym"] = 7
    /\ fwdOut[1].out.total_loss.num > 0
    /\ fwdScaled[1].out.total_loss.num = 3 * fwdOut[1].out.total_loss.num

\* C5: forward on a batch without a node ends in an error: it returns no
\* total loss and logs nothing.
C5_ZeroNodeFatal ==
    (fwdOut # None /\ Len(BatchNodes) = 0) =>
        /\ fwdOut[1].out.status = "raised"
        /\ fwdOut[1].out.console_lines = 0
        /\ fwdOut[1].out.tb_scalars = 0

(***************************************************************************)
(* Properties of train() (under Spec)                                      *)
(***************************************************************************)
\* C6: with at least one training batch, when an epoch ends every
\* validation batch index 0..valdt_num_batch-1 has been processed once, in
\* increasing order, and next() is never called on the exhausted iterator.
C6_ValdtCoverage ==
    /\ err # "StopIteration"
    /\ Len(valdt_seen) <= valdt_num_batch
    /\ \A i \in 1..Len(valdt_seen) : valdt_seen[i] = i - 1
    /\ (/\ epoch # None
        /\ train_num_batch >= 1
        /\ pc \in {"epoch_head", "final", "close", "done"})
          => Len(valdt_seen) = valdt_num_batch

\* the end of the first epoch of two training and three validation batches
C6_Witness ==
    /\ pc = "epoch_head"
    /\ epoch = Some(0)
    /\ train_num_batch = 2
    /\ valdt_num_batch = 3
    /\ valdt_seen = <<0, 1, 2>>

\* C7: the fraction of validation batches consumed exceeds the fraction of
\* training batches consumed by at most 1 / valdt_num_batch.
C7_ValdtLead ==
    (train_num_batch >= 1 /\ valdt_num_batch >= 1) =>
        /\ valdt_iter * train_num_batch
             <= train_iter * valdt_num_batch + train_num_batch
        /\ RatLe(valdt_fraction_done,
                 [num |-> train_fraction_done.num * valdt_num_batch
                            + train_fraction_done.den,
                  den |-> train_fraction_done.den * valdt_num_batch])

\* validation is strictly ahead of training: 1/2 against 1/3
C7_Witness ==
    /\ pc = "validate"
    /\ train_num_batch = 3
    /\ valdt_num_batch = 2
    /\ train_iter = 1
    /\ valdt_iter = 1
    /\ ~RatLe(valdt_fraction_done, train_fraction_done)

\* C8: a training step runs forward, optimizer step, scheduler step,
\* zero-grad, backward, in this order, and backward is called on the loss
\* the forward pass of the same step returned.
C8_TrainStepOrder ==
    LET expected == <<"forward", "opt_step", "sched_step", "zero_grad",
                      "backward">>
    IN  /\ \A i \in 1..Len(ops) :
              i <= 5 => ops[i] = <<expected[i], train_step[1]>>
        /\ pc \in {"checkpoint", "validate"} => Len(ops) >= 5
        /\ pc \in {expected[i] : i \in 1..5} => pc = expected[Len(ops) + 1]

\* the fifth training step of a run has just called backward
C8_Witness ==
    /\ pc = "checkpoint"
    /\ train_step = Some(4)
    /\ Len(ops) = 5
    /\ ops[2] = <<"opt_step", 4>>
    /\ ops[5] = <<"backward", 4>>

\* the periodic checkpoints made so far
Periodic == {i \in 1..Len(checkpoints) : checkpoints[i].saved.prepend_epoch}

PeriodicSteps == {checkpoints[i].step : i \in Periodic}

\* the last training step, counted from 0 over the whole run, whose
\* checkpoint decision (line 206) has been taken; -1 before the first
Decided ==
    IF pc \in {"opt_step", "sched_step", "zero_grad", "backward", "checkpoint"}
       \/ err = "RuntimeError"
    THEN steps_forwarded.train - 2
    ELSE steps_forwarded.train - 1

\* the step of the last periodic checkpoint before step s
PrevCheckpoint(s) ==
    CHOOSE p \in PeriodicSteps :
        p < s /\ \A q \in PeriodicSteps : q < s => q <= p

\* C9: the global training step is epoch * train_num_batch + batch index; a
\* periodic checkpoint (the point extractor and the optimizer, tagged with
\* the epoch) is saved at step s exactly when s is the first step of the
\* run or s minus the step of the previous periodic checkpoint is at least
\* checkpoint_interval; for an interval I >= 1 that is at 0, I, 2I, ...
C9_PeriodicCheckpoints ==
    /\ pc \in {"forward", "opt_step", "sched_step", "zero_grad", "backward",
               "checkpoint", "validate"} =>
          /\ train_step[1] = epoch[1] * train_num_batch + train_batch_ind[1]
          /\ train_step[1] = IF pc = "forward" THEN steps_forwarded.train
                             ELSE steps_forwarded.train - 1
    /\ \A i \in Periodic :
          /\ checkpoints[i].saved.models = {"pointencoder"}
          /\ checkpoints[i].saved.optimizers = <<"point_opt">>
          /\ checkpoints[i].saved.epoch = checkpoints[i].step \div train_num_batch
    /\ PeriodicSteps \subseteq 0..Decided
    /\ \A s \in 0..Decided :
          s \in PeriodicSteps <=>
              \/ s = 0
              \/ s - PrevCheckpoint(s) >= conf.checkpoint_interval
    /\ conf.checkpoint_interval >= 1 =>
          PeriodicSteps = {s \in 0..Decided : s % conf.checkpoint_interval = 0}

\* an interval of 3 over two epochs of two batches: checkpoints at the
\* steps 0 and 3, the second one in the second epoch
C9_Witness ==
    /\ pc = "done"
    /\ conf.checkpoint_interval = 3
    /\ train_num_batch = 2
    /\ conf.epochs = 2
    /\ PeriodicSteps = {0, 3}
    /\ \E i \in Periodic : checkpoints[i].step = 3 /\ checkpoints[i].saved.epoch = 1

\* C10: the final checkpoint holds the weights of all three components and
\* the optimizer's state, and is saved without an epoch prefix.
C10_FinalCheckpointComplete ==
    pc \in {"close", "done"} =>
        /\ \E i \in 1..Len(checkpoints) : ~checkpoints[i].saved.prepend_epoch
        /\ \A i \in 1..Len(checkpoints) :
              ~checkpoints[i].saved.prepend_epoch =>
                  /\ checkpoints[i].saved.models = Components
                  /\ checkpoints[i].saved.optimizers = <<"point_opt">>

\* the statements of train() before the models exist and the freeze is applied
BeforeFreeze == {"start", "exited", "prepare", "create"}

\* C11: the optimizer built in INIT holds the parameters of the point
\* extractor and of no other component.
C11_OptimizerOverPointExtractor ==
    pc \notin BeforeFreeze => opt_params = {"pointencoder"}

\* C12: from the freeze on, the structure encoder and decoder are in
\* evaluation mode, require no gradient, hold no gradient, and their
\* parameters are the loaded ones.
C12_FrozenStayFrozen ==
    pc \notin BeforeFreeze =>
        \A c \in {"encoder", "decoder"} :
            /\ ~training[c]
            /\ ~requires_grad[c]
            /\ ~has_grad[c]
            /\ param_ver[c] = 0

\* a finished run of six training steps and validation steps, the point
\* extractor holding a gradient
C12_Witness ==
    /\ pc = "done"
    /\ opt_steps = 6
    /\ sched_steps = 6
    /\ steps_forwarded.valdt >= 3
    /\ has_grad["pointencoder"]
    /\ Len(checkpoints) >= 2

\* C13: after an answer other than 'y' the process has ended with no
\* directory removed or created, no log opened and no configuration saved;
\* the file system and the log change only after the answer 'y' or when no
\* run of the name existed.
C13_DeclinedNoSideEffect ==
    /\ [](pc = "exited" =>
            /\ response # None
            /\ response # Some("y")
            /\ fs.log_dir # "fresh"
            /\ fs.model_dir # "fresh"
            /\ ~fs.conf_pth
            /\ flog = "unopened"
            /\ flog_lines = 0)
    /\ [][(fs' # fs \/ flog' # flog \/ flog_lines' # flog_lines) =>
            \/ response = Some("y")
            \/ (/\ response = None
                /\ fs.log_dir # "old"
                /\ fs.model_dir # "old")]_vars

\* only the model directory existed and the prompt was answered with Enter
C13_Witness ==
    /\ pc = "exited"
    /\ response = Some("")
    /\ fs = [log_dir |-> "absent", model_dir |-> "old", conf_pth |-> FALSE]

\* C14: a validation step runs its forward pass with gradient tracking off
\* and every component in evaluation mode, and takes no optimizer step, no
\* scheduler step, no zero-grad and no backward pass: parameters,
\* gradients and the learning rate are unchanged by it.
C14_ValidationReadOnly ==
    /\ []((fwd_ctx # None /\ fwd_ctx[1].is_valdt) =>
            /\ ~fwd_ctx[1].grad_enabled
            /\ \A c \in Components : ~fwd_ctx[1].training[c])
    /\ [][steps_forwarded'.valdt # steps_forwarded.valdt =>
            /\ opt_steps' = opt_steps
            /\ sched_steps' = sched_steps
            /\ param_ver' = param_ver
            /\ has_grad' = has_grad
            /\ requires_grad' = requires_grad
            /\ total_loss' = total_loss]_vars

\* the first validation step of a run, the point extractor still in
\* training mode before it
C14_Witness ==
    /\ fwd_ctx # None
    /\ fwd_ctx[1].is_valdt
    /\ steps_forwarded.valdt = 1
    /\ opt_steps = 1
    /\ has_grad["pointencoder"]
    /\ ~training["pointencoder"]

\* C15 as stated: whenever the interleave loop has stopped, the validation
\* fraction is at most the training fraction.
C15_StopsNotAhead ==
    (pc = "batch_head" /\ train_num_batch >= 1 /\ valdt_num_batch >= 1) =>
        RatLe(valdt_fraction_done, train_fraction_done)

\* C15 amended: whenever the interleave loop has stopped after a training
\* batch, the validation set is exhausted for the epoch or the validation
\* fraction exceeds the training fraction, by at most 1 / valdt_num_batch.
C15_StopsAheadOrExhausted ==
    (/\ pc = "batch_head"
     /\ train_iter >= 1
     /\ train_num_batch >= 1
     /\ valdt_num_batch >= 1) =>
        /\ \/ valdt_batch_ind + 1 = valdt_num_batch
           \/ RatLt(train_fraction_done, valdt_fraction_done)
        /\ RatLe(valdt_fraction_done,
                 [num |-> train_fraction_done.num * valdt_num_batch
                            + train_fraction_done.den,
                  den |-> train_fraction_done.den * valdt_num_batch])

\* the loop stopped after the first training batch with validation batches
\* left and validation ahead
C15_Witness ==
    /\ pc = "batch_head"
    /\ train_iter = 1
    /\ valdt_iter = 2
    /\ valdt_num_batch = 3
    /\ train_num_batch = 3
    /\ RatLt(train_fraction_done, valdt_fraction_done)

\* C16: the forward pass of every training step runs with the point
\* extractor in training mode.
C16_TrainForwardInTrainMode ==
    (fwd_ctx # None /\ ~fwd_ctx[1].is_valdt) =>
        fwd_ctx[1].training["pointencoder"]

\* C17 as stated: no periodic checkpoint of an iteration is written before
\* a validation step of that iteration.
C17_CheckpointAfterValidation ==
    \A i \in 1..Len(ops), j \in 1..Len(ops) :
        (ops[i][1] = "checkpoint" /\ ops[j][1] = "validate") => j < i

\* C17 amended: an iteration runs the training step, then the periodic
\* checkpoint if one is due, then its validation steps; no validation step
\* of an iteration runs before that iteration's checkpoint.
C17_CheckpointBeforeValidation ==
    /\ \A i \in 1..Len(ops) :
          ops[i][1] \in {"checkpoint", "validate"} => i > 5
    /\ \A i \in 1..Len(ops), j \in 1..Len(ops) :
          (ops[i][1] = "checkpoint" /\ ops[j][1] = "validate") => i < j
    /\ pc = "checkpoint" => \A i \in 1..Len(ops) : ops[i][1] # "validate"

\* an iteration with a checkpoint followed by two validation steps
C17_Witness ==
    /\ Len(ops) = 8
    /\ ops[5][1] = "backward"
    /\ ops[6][1] = "checkpoint"
    /\ ops[7][1] = "validate"
    /\ ops[8][1] = "validate"

\* the final checkpoints made so far
Finals == {i \in 1..Len(checkpoints) : ~checkpoints[i].saved.prepend_epoch}

\* C18: a run that passed INIT ends in DONE and not in an exception; at
\* DONE the final checkpoint has been saved once, after every other
\* checkpoint, and the log is closed.
C18_ReachesDone ==
    /\ pc # "crashed"
    /\ pc = "done" =>
          /\ Finals = {Len(checkpoints)}
          /\ flog = "closed"

\* C19: no training or validation step fails because a log sink is off:
\* the run never ends by reading a writer that was not created.
C19_SinksOptional ==
    (pc = "crashed" /\ epoch # None) => err # "UnboundLocalError"

====
